---- MODULE Spec2Model ----
(***************************************************************************)
(* LutronButton (custom_components/lutron_custom/__init__.py): the         *)
(* per-button classifier that turns the raw PRESSED / RELEASED callbacks   *)
(* of pylutron into the events pressed, released, long_pressed and         *)
(* super_long_pressed, with one threading.Lock and one threading.Timer     *)
(* slot per button.                                                        *)
(*                                                                         *)
(* Threads of one button: every button_callback call runs on the thread    *)
(* that delivers the raw event (thread <<"call", k>>), every Timer runs    *)
(* its function on a thread of its own (thread <<"timer", t>>).  Taking    *)
(* the lock is one step of a thread, the block it runs under the lock is   *)
(* the next one; a timer's expiry is a step of its own, so that a timer    *)
(* can have expired and still wait for the lock.                           *)
(***************************************************************************)
EXTENDS Integers, Sequences, FiniteSets, TLC

\* ------------------------------------------------------------------ bounds
MaxEvents == 3      \* raw events of a run in which the sink works
FailEvents == 2     \* raw events of a run in which the sink may raise
MaxFails == 1       \* failures of the event sink or of the logbook in one run
LiveEvents == 2     \* raw events of a run under fair scheduling
ConcEvents == 2     \* raw events of a run in which button_callback calls overlap

\* --------------------------------------------------------------- constants
Buttons == {1, 2}

\* pylutron's Button.Event, plus one value that is neither of its members
PRESSED == "PRESSED"
RELEASED == "RELEASED"
UNKNOWN == "UNKNOWN"
RawEvents == {PRESSED, RELEASED, UNKNOWN}

Actions == {"pressed", "released", "long_pressed", "super_long_pressed"}

\* button.button_type as the words of its name; NoType is Python's None
NoType == << >>
button_type(b) == IF b = 1 THEN <<"Master", "RaiseLower">> ELSE <<"Toggle">>

\* self._has_release_event
has_release_event(b) ==
    /\ button_type(b) # NoType
    /\ \E i \in DOMAIN button_type(b) : button_type(b)[i] = "RaiseLower"

\* self._event
event_name == "lutron_event"

\* thread identities
NoThread == <<"none", 0>>
CallThread(k) == <<"call", k>>
TimerThread(t) == <<"timer", t>>

\* self.timer = None
NoTimer == 0

VARIABLES
    lock,       \* lock[b]: the thread holding self.lock, or NoThread
    timer,      \* timer[b]: self.timer, an index into timers[b], or NoTimer
    timers,     \* timers[b]: every threading.Timer the button has created
    calls,      \* calls[b]: every button_callback call made on the button
    bus,        \* hass.bus: the events fired, in order
    logbook,    \* the logbook entries written, in order
    acquired,   \* acquired[b]: the threads in the order they took self.lock
    fails,      \* sink and logbook failures so far
    quota,      \* quota[b]: the raw events pylutron delivers to b in this run
    threads     \* the threads that deliver raw events to one button

vars == <<lock, timer, timers, calls, bus, logbook, acquired, fails, quota, threads>>

\* ----------------------------------------------------------------- helpers
Timers(b) == DOMAIN timers[b]
Calls(b) == DOMAIN calls[b]

\* calls of b that have started and not yet returned or raised
InFlight(b) == {k \in Calls(b) : calls[b][k].pc \notin {"done", "raised"}}

RECURSIVE SelectEvents(_, _)
SelectEvents(s, b) ==
    IF s = << >> THEN << >>
    ELSE IF s[1].button = b
         THEN <<s[1]>> \o SelectEvents(Tail(s), b)
         ELSE SelectEvents(Tail(s), b)

\* the events of button b on the bus, in order
Events(b) == SelectEvents(bus, b)
EventActions(b) == [i \in DOMAIN Events(b) |-> Events(b)[i].action]
LogActions(b) == [i \in DOMAIN SelectEvents(logbook, b) |->
                     SelectEvents(logbook, b)[i].action]

\* a timer that is armed: started, not cancelled, its interval not yet over
Armed(b, t) == timers[b][t].st = "armed" /\ ~timers[b][t].cancelled

\* a timer that may still run its function, or is running it
Pending(b, t) == Armed(b, t) \/ timers[b][t].st \in {"fired", "locked"}

ArmedTimers(b) == {t \in Timers(b) : Armed(b, t)}

\* timers whose interval is over and whose function has not returned yet
FiredTimers(b) == {t \in Timers(b) : timers[b][t].st \in {"fired", "locked"}}

\* timers whose interval is over
ExpiredTimers(b) == {t \in Timers(b) : timers[b][t].st # "armed"}

\* what a button_callback call finds when it runs its block under the lock
Snapshot(b) ==
    [slot |-> timer[b], armed |-> ArmedTimers(b), fired |-> FiredTimers(b),
     nexp |-> Cardinality(ExpiredTimers(b))]

NoSnapshot == [slot |-> NoTimer, armed |-> {}, fired |-> {}, nexp |-> 0]

\* the record of one emission: the payload of button_action plus who made it
Emission(b, action, by) ==
    [event |-> event_name, button |-> b, action |-> action, by |-> by]

\* ------------------------------------------------------------------- Init
\* LutronButton.__init__: self.lock = Lock(); self.timer = None
Constructed ==
    /\ lock = [b \in Buttons |-> NoThread]
    /\ timer = [b \in Buttons |-> NoTimer]
    /\ timers = [b \in Buttons |-> << >>]
    /\ calls = [b \in Buttons |-> << >>]
    /\ bus = << >>
    /\ logbook = << >>
    /\ acquired = [b \in Buttons |-> << >>]
    /\ fails = 0

\* the ways to deliver n raw events to the buttons
Quotas(n) == {q \in [Buttons -> 0..n] : q[1] + q[2] = n}

\* the raise/lower button of the keypad is used, pylutron delivers its raw
\* events one at a time; the other button stays untouched
Init ==
    /\ Constructed
    /\ quota \in {q \in Quotas(MaxEvents) : q[1] = MaxEvents}
    /\ threads = 1

\* one button of the keypad is used, by raw events that may overlap
InitConc ==
    /\ Constructed
    /\ quota \in {q \in Quotas(ConcEvents) : \E b \in Buttons : q[b] = 0}
    /\ threads = 2

\* one button of the keypad is used, by raw events that may overlap
InitLive ==
    /\ Constructed
    /\ quota \in {q \in Quotas(LiveEvents) : \E b \in Buttons : q[b] = 0}
    /\ threads = 2

\* the raw events go to either button, one at a time for each button
InitIso ==
    /\ Constructed
    /\ quota \in Quotas(FailEvents)
    /\ threads = 1

\* a cancel() that starts the timer's interval again instead of stopping it
CancelRestarts(ts, t) == [ts EXCEPT ![t].st = "armed"]

\* Timer.cancel(): stops the timer if it is still waiting; a timer whose
\* interval is over runs (or has run) its function all the same.
Cancel(ts, t) == [ts EXCEPT ![t].cancelled = TRUE]

\* button_callback without the call of cancel(): the slot is cleared and the
\* timer that was in it keeps running
CancelSlotForgotten(b) == timers[b]

\* if self.timer: self.timer.cancel()
CancelSlot(b) == IF timer[b] # NoTimer THEN Cancel(timers[b], timer[b]) ELSE timers[b]

\* a Timer that is created and never started: it cannot expire
NewTimerNotStarted(kind, by, press) ==
    [kind |-> kind, st |-> "armed", cancelled |-> TRUE, by |-> by, press |-> press]

\* Timer(interval, function) followed by start(); by is the thread that
\* armed it, press the button_callback call its chain started from
NewTimer(kind, by, press) ==
    [kind |-> kind, st |-> "armed", cancelled |-> FALSE, by |-> by, press |-> press]

\* the blocks entered without taking the lock
CanAcquireUnlocked(b) == TRUE

\* the lock is free: `with self.lock` can be entered
CanAcquire(b) == lock[b] = NoThread

\* a block that ends without giving the lock back
UnlockForgotten(b) == lock' = lock

\* one lock shared by all buttons, released for all of them
UnlockShared(b) == lock' = [c \in Buttons |-> NoThread]

\* the end of a `with self.lock` block, reached normally or by an exception
Unlock(b) == lock' = [lock EXCEPT ![b] = NoThread]

\* button_action without the call of logbook.log_entry
button_action_unlogged(b, action, by) ==
    /\ bus' = Append(bus, Emission(b, action, by))
    /\ UNCHANGED logbook

\* button_action(action): bus.fire then logbook.log_entry, both succeed
button_action(b, action, by) ==
    /\ bus' = Append(bus, Emission(b, action, by))
    /\ logbook' = Append(logbook, Emission(b, action, by))

\* button_action(action) raises: m = "fire" when bus.fire raises, m = "log"
\* when bus.fire succeeds and logbook.log_entry raises
FailModes == {"fire", "log"}
button_action_raises(b, action, by, m) ==
    /\ fails < MaxFails
    /\ fails' = fails + 1
    /\ bus' = IF m = "log" THEN Append(bus, Emission(b, action, by)) ELSE bus
    /\ UNCHANGED logbook

\* a classifier that closes the interrupted press: every raw event is
\* answered by "released"
ImmediateActionSynthetic(e) == "released"

\* a classifier that starts the timer chain of a PRESS without emitting
\* "pressed"
ImmediateActionSilentPress(e) == IF e = RELEASED THEN "released" ELSE ""

\* the action button_callback emits at once for a raw event, "" for none
ImmediateAction(e) ==
    IF e = PRESSED THEN "pressed"
    ELSE IF e = RELEASED THEN "released"
    ELSE ""

\* -------------------------------------------------------- button_callback
\* pylutron calls button_callback(button, context, event, params) on the
\* thread that received the raw event
RawEvent(b, e) ==
    /\ Len(calls[b]) < quota[b]
    /\ Cardinality(InFlight(b)) < threads
    /\ calls' = [calls EXCEPT ![b] =
                    Append(@, [event |-> e, pc |-> "start", seen |-> NoSnapshot])]
    /\ UNCHANGED <<lock, timer, timers, bus, logbook, acquired, fails, quota, threads>>

\* button_callback: with self.lock:
CallAcquire(b, k) ==
    /\ calls[b][k].pc = "start"
    /\ CanAcquire(b)
    /\ lock' = [lock EXCEPT ![b] = CallThread(k)]
    /\ acquired' = [acquired EXCEPT ![b] = Append(@, CallThread(k))]
    /\ calls' = [calls EXCEPT ![b][k].pc = "locked"]
    /\ UNCHANGED <<timer, timers, bus, logbook, fails, quota, threads>>

\* button_callback with a RELEASE branch that cancels the timer and leaves it
\* in the slot
button_callback_slot_kept(b, k) ==
    /\ calls[b][k].pc = "locked"
    /\ LET e == calls[b][k].event IN
       /\ IF ImmediateAction(e) # ""
          THEN button_action(b, ImmediateAction(e), CallThread(k))
          ELSE UNCHANGED <<bus, logbook>>
       /\ IF e = PRESSED
          THEN /\ timers' = [timers EXCEPT ![b] =
                                Append(CancelSlot(b), NewTimer("long", CallThread(k), k))]
               /\ timer' = [timer EXCEPT ![b] = Len(timers[b]) + 1]
          ELSE /\ timers' = [timers EXCEPT ![b] = CancelSlot(b)]
               /\ UNCHANGED timer
    /\ Unlock(b)
    /\ calls' = [calls EXCEPT ![b][k] = [@ EXCEPT !.pc = "done", !.seen = Snapshot(b)]]
    /\ UNCHANGED <<acquired, fails, quota, threads>>

\* button_callback, the block under the lock:
\*   if self.timer: self.timer.cancel(); self.timer = None
\*   if event == PRESSED: button_action("pressed");
\*                        self.timer = Timer(0.5, long_press_func); start()
\*   if event == RELEASED: button_action("released")
button_callback(b, k) ==
    /\ calls[b][k].pc = "locked"
    /\ LET e == calls[b][k].event IN
       /\ IF ImmediateAction(e) # ""
          THEN button_action(b, ImmediateAction(e), CallThread(k))
          ELSE UNCHANGED <<bus, logbook>>
       /\ IF e = PRESSED
          THEN /\ timers' = [timers EXCEPT ![b] =
                                Append(CancelSlot(b), NewTimer("long", CallThread(k), k))]
               /\ timer' = [timer EXCEPT ![b] = Len(timers[b]) + 1]
          ELSE /\ timers' = [timers EXCEPT ![b] = CancelSlot(b)]
               /\ timer' = [timer EXCEPT ![b] = NoTimer]
    /\ Unlock(b)
    /\ calls' = [calls EXCEPT ![b][k] = [@ EXCEPT !.pc = "done", !.seen = Snapshot(b)]]
    /\ UNCHANGED <<acquired, fails, quota, threads>>

\* button_callback with the exception of button_action caught and dropped: the
\* call returns as if it had emitted
button_callback_swallows(b, k, m) ==
    /\ calls[b][k].pc = "locked"
    /\ ImmediateAction(calls[b][k].event) # ""
    /\ button_action_raises(b, ImmediateAction(calls[b][k].event), CallThread(k), m)
    /\ timers' = [timers EXCEPT ![b] = CancelSlot(b)]
    /\ timer' = [timer EXCEPT ![b] = NoTimer]
    /\ Unlock(b)
    /\ calls' = [calls EXCEPT ![b][k] = [@ EXCEPT !.pc = "done", !.seen = Snapshot(b)]]
    /\ UNCHANGED <<acquired, quota, threads>>

\* button_callback when button_action raises: the timer in the slot is already
\* cancelled, no timer is armed, the exception leaves the `with` block and
\* reaches the caller
button_callback_raises(b, k, m) ==
    /\ calls[b][k].pc = "locked"
    /\ ImmediateAction(calls[b][k].event) # ""
    /\ button_action_raises(b, ImmediateAction(calls[b][k].event), CallThread(k), m)
    /\ timers' = [timers EXCEPT ![b] = CancelSlot(b)]
    /\ timer' = [timer EXCEPT ![b] = NoTimer]
    /\ Unlock(b)
    /\ calls' = [calls EXCEPT ![b][k] = [@ EXCEPT !.pc = "raised", !.seen = Snapshot(b)]]
    /\ UNCHANGED <<acquired, quota, threads>>

\* ------------------------------------------------------------------ timers
\* Timer.run: the interval is over and the timer was not cancelled, so the
\* timer's thread calls its function
Expire(b, t) ==
    /\ Armed(b, t)
    /\ timers' = [timers EXCEPT ![b][t].st = "fired"]
    /\ UNCHANGED <<lock, timer, calls, bus, logbook, acquired, fails, quota, threads>>

\* long_press_func / super_long_press_func: with self.lock:
TimerAcquire(b, t) ==
    /\ timers[b][t].st = "fired"
    /\ CanAcquire(b)
    /\ lock' = [lock EXCEPT ![b] = TimerThread(t)]
    /\ acquired' = [acquired EXCEPT ![b] = Append(@, TimerThread(t))]
    /\ timers' = [timers EXCEPT ![b][t].st = "locked"]
    /\ UNCHANGED <<timer, calls, bus, logbook, fails, quota, threads>>

\* long_press_func, the block under the lock:
\*   self.button_action("long_pressed")
\*   self.timer = Timer(1, super_long_press_func); self.timer.start()
long_press_func(b, t) ==
    /\ timers[b][t].kind = "long"
    /\ timers[b][t].st = "locked"
    /\ button_action(b, "long_pressed", TimerThread(t))
    /\ timers' = [timers EXCEPT ![b] =
                     Append([@ EXCEPT ![t].st = "done"],
                            NewTimer("super", TimerThread(t), timers[b][t].press))]
    /\ timer' = [timer EXCEPT ![b] = Len(timers[b]) + 1]
    /\ Unlock(b)
    /\ UNCHANGED <<calls, acquired, fails, quota, threads>>

\* long_press_func when button_action raises: the timer's thread ends, no
\* 1 s timer is armed and self.timer is left as it was
long_press_func_raises(b, t, m) ==
    /\ timers[b][t].kind = "long"
    /\ timers[b][t].st = "locked"
    /\ button_action_raises(b, "long_pressed", TimerThread(t), m)
    /\ timers' = [timers EXCEPT ![b][t].st = "done"]
    /\ Unlock(b)
    /\ UNCHANGED <<timer, calls, acquired, quota, threads>>

\* super_long_press_func without `self.timer = None`: the timer that has run
\* stays in the slot
super_long_press_func_slot_kept(b, t) ==
    /\ timers[b][t].kind = "super"
    /\ timers[b][t].st = "locked"
    /\ button_action(b, "super_long_pressed", TimerThread(t))
    /\ timers' = [timers EXCEPT ![b][t].st = "done"]
    /\ Unlock(b)
    /\ UNCHANGED <<timer, calls, acquired, fails, quota, threads>>

\* super_long_press_func, the block under the lock:
\*   self.timer = None
\*   self.button_action("super_long_pressed")
super_long_press_func(b, t) ==
    /\ timers[b][t].kind = "super"
    /\ timers[b][t].st = "locked"
    /\ timer' = [timer EXCEPT ![b] = NoTimer]
    /\ button_action(b, "super_long_pressed", TimerThread(t))
    /\ timers' = [timers EXCEPT ![b][t].st = "done"]
    /\ Unlock(b)
    /\ UNCHANGED <<calls, acquired, fails, quota, threads>>

\* super_long_press_func when button_action raises: self.timer is None
\* already, the timer's thread ends
super_long_press_func_raises(b, t, m) ==
    /\ timers[b][t].kind = "super"
    /\ timers[b][t].st = "locked"
    /\ timer' = [timer EXCEPT ![b] = NoTimer]
    /\ button_action_raises(b, "super_long_pressed", TimerThread(t), m)
    /\ timers' = [timers EXCEPT ![b][t].st = "done"]
    /\ Unlock(b)
    /\ UNCHANGED <<calls, acquired, quota, threads>>

\* ------------------------------------------------------------------- Next
\* the sink and the logbook work
Next ==
    \/ \E b \in Buttons, e \in RawEvents : RawEvent(b, e)
    \/ \E b \in Buttons : \E k \in Calls(b) : CallAcquire(b, k)
    \/ \E b \in Buttons : \E k \in Calls(b) : button_callback(b, k)
    \/ \E b \in Buttons : \E t \in Timers(b) : Expire(b, t)
    \/ \E b \in Buttons : \E t \in Timers(b) : TimerAcquire(b, t)
    \/ \E b \in Buttons : \E t \in Timers(b) : long_press_func(b, t)
    \/ \E b \in Buttons : \E t \in Timers(b) : super_long_press_func(b, t)

\* the sink or the logbook raises
Raises ==
    \/ \E b \in Buttons, m \in FailModes : \E k \in Calls(b) :
          button_callback_raises(b, k, m)
    \/ \E b \in Buttons, m \in FailModes : \E t \in Timers(b) :
          long_press_func_raises(b, t, m)
    \/ \E b \in Buttons, m \in FailModes : \E t \in Timers(b) :
          super_long_press_func_raises(b, t, m)

NextFail == Next \/ Raises

\* one button in use, the sink and the logbook work
Spec == Init /\ [][Next]_vars

\* one button in use by overlapping calls, the sink and the logbook work
SpecConc == InitConc /\ [][Next]_vars

\* every step of a thread that has started: a timer that is armed expires, a
\* thread waiting for a free lock takes it, a thread holding the lock runs
Run ==
    \/ \E b \in Buttons : \E k \in Calls(b) : CallAcquire(b, k) \/ button_callback(b, k)
    \/ \E b \in Buttons : \E t \in Timers(b) :
          \/ Expire(b, t)
          \/ TimerAcquire(b, t)
          \/ long_press_func(b, t)
          \/ super_long_press_func(b, t)

\* one button in use, the sink and the logbook work, threads and timers are
\* scheduled fairly
SpecLive == InitLive /\ [][Next]_vars /\ WF_vars(Run)

\* both buttons in use, the sink or the logbook may raise
SpecFail == InitIso /\ [][NextFail]_vars

\* =========================================================== properties
\* the position of thread th in the order of lock acquisition, 0 if it has
\* not taken the lock
AcqPos(b, th) ==
    IF \E i \in DOMAIN acquired[b] : acquired[b][i] = th
    THEN CHOOSE i \in DOMAIN acquired[b] : acquired[b][i] = th
    ELSE 0

\* the positions in Events(b) of the events made by thread th
EventsBy(b, th) == {i \in DOMAIN Events(b) : Events(b)[i].by = th}

\* the timers armed by thread th
ArmedBy(b, th) == {t \in Timers(b) : timers[b][t].by = th}

\* the button is in the state IDLE: no timer in the slot, no timer armed
IDLE(b) == timer[b] = NoTimer /\ ArmedTimers(b) = {}

\* ---------------------------------------------------------------- C1
\* C1: once button_callback has cancelled a timer (cancel + clear under the
\* lock), the timer's function emits no event and arms no timer afterwards,
\* also when the timer had expired and was waiting for the lock.
C1_CancelledTimerIsNoOp ==
    [][\A b \in Buttons : \A t \in Timers(b) :
          timers[b][t].cancelled =>
             /\ EventsBy(b, TimerThread(t))' = EventsBy(b, TimerThread(t))
             /\ ArmedBy(b, TimerThread(t))' = ArmedBy(b, TimerThread(t))]_vars

\* ---------------------------------------------------------------- C2
\* timers that are armed or expired, and neither cancelled nor finished
PendingTimers(b) ==
    {t \in Timers(b) : ~timers[b][t].cancelled /\ timers[b][t].st # "done"}

\* C2: every button has at most one pending timer in every reachable state.
C2_AtMostOnePendingTimer ==
    \A b \in Buttons : Cardinality(PendingTimers(b)) <= 1

\* ---------------------------------------------------------------- C3
\* C3: a button whose type does not contain "RaiseLower" never emits
\* "released".
C3_ReleaseSuppressed ==
    \A b \in Buttons :
       ~has_release_event(b) =>
          \A i \in DOMAIN Events(b) : Events(b)[i].action # "released"

\* ---------------------------------------------------------------- C4
\* the calls of b that have run their block to the end without an exception
Done(b, e) == {k \in Calls(b) : calls[b][k].pc = "done" /\ calls[b][k].event = e}

\* the position in Events(b) of the event emitted by call k, 0 if none
EventPos(b, k) ==
    IF EventsBy(b, CallThread(k)) = {} THEN 0
    ELSE CHOOSE i \in EventsBy(b, CallThread(k)) : TRUE

\* the events emitted by the timers of the chain started by call k
ChainEvents(b, k) ==
    {i \in DOMAIN Events(b) :
        /\ Events(b)[i].by[1] = "timer"
        /\ timers[b][Events(b)[i].by[2]].press = k}

\* call j ran while the 0.5 s timer armed by call k was armed and not expired
SawTimerOf(b, j, k) ==
    \E t \in calls[b][j].seen.armed : timers[b][t].by = CallThread(k)

\* C4: when a RELEASE is processed after a PRESS and before the 0.5 s timer
\* of that PRESS has expired, the events of the press are exactly "pressed",
\* "released", and its timer chain emits nothing, ever.
C4_EarlyReleaseCancelsEscalation ==
    \A b \in Buttons : \A k \in Done(b, PRESSED) : \A j \in Done(b, RELEASED) :
       (has_release_event(b) /\ SawTimerOf(b, j, k)) =>
          /\ ChainEvents(b, k) = {}
          /\ ArmedBy(b, CallThread(k)) \cap ExpiredTimers(b) = {}
          /\ EventPos(b, j) = EventPos(b, k) + 1

\* ---------------------------------------------------------------- C5
\* the events that follow position i up to the next event emitted by a call
RECURSIVE TimerRun(_, _)
TimerRun(b, i) ==
    IF i + 1 \in DOMAIN Events(b) /\ Events(b)[i + 1].by[1] = "timer"
    THEN {i + 1} \cup TimerRun(b, i + 1)
    ELSE {}

\* C5: when a second PRESS is processed while the 0.5 s timer of the first
\* is armed and not expired, the first timer never runs, and the second
\* "pressed" is followed by the events of one press sequence: at most one
\* "long_pressed" and one "super_long_pressed", from the second press's chain.
C5_RepressRestartsChain ==
    \A b \in Buttons : \A k1, k2 \in Done(b, PRESSED) :
       SawTimerOf(b, k2, k1) =>
          /\ ChainEvents(b, k1) = {}
          /\ ArmedBy(b, CallThread(k1)) \cap ExpiredTimers(b) = {}
          /\ TimerRun(b, EventPos(b, k2)) \subseteq ChainEvents(b, k2)
          /\ \A a \in {"long_pressed", "super_long_pressed"} :
                Cardinality({i \in TimerRun(b, EventPos(b, k2)) :
                                Events(b)[i].action = a}) <= 1

\* ---------------------------------------------------------------- C8
\* C8: a raw event that is neither PRESSED nor RELEASED emits nothing and
\* leaves the slot and every timer of the button as they were.
C8_UnknownEventIgnored ==
    [][\A b \in Buttons : \A k \in Calls(b) :
          (calls[b][k].event = UNKNOWN /\ calls[b][k].pc # calls'[b][k].pc) =>
             /\ timer'[b] = timer[b]
             /\ timers'[b] = timers[b]
             /\ bus' = bus]_vars

\* ---------------------------------------------------------------- C6
\* the actions emitted by b from the event of call k on
EventsSince(b, k) ==
    IF EventPos(b, k) = 0 THEN << >>
    ELSE SubSeq(EventActions(b), EventPos(b, k), Len(Events(b)))

Escalation == <<"pressed", "long_pressed", "super_long_pressed">>

IsPrefix(s, t) == Len(s) <= Len(t) /\ s = SubSeq(t, 1, Len(s))

\* call k was a PRESS that found the button idle: nothing in the slot, no
\* timer armed, no timer expired and waiting to run
IdlePress(b, k) ==
    /\ k \in Done(b, PRESSED)
    /\ calls[b][k].seen.slot = NoTimer
    /\ calls[b][k].seen.armed = {}
    /\ calls[b][k].seen.fired = {}

\* no raw event of b is processed after call k, or waits to be
NoFurtherEvent(b, k) ==
    \A j \in Calls(b) \ {k} :
       /\ AcqPos(b, CallThread(j)) # 0
       /\ AcqPos(b, CallThread(j)) < AcqPos(b, CallThread(k))

\* the escalation of an idle press has not emitted anything out of order
C6_Order ==
    \A b \in Buttons : \A k \in Calls(b) :
       (IdlePress(b, k) /\ NoFurtherEvent(b, k)) =>
          IsPrefix(EventsSince(b, k), Escalation)

\* the escalation of the press of call k is complete and the button is IDLE
Escalated(b, k) ==
    /\ EventsSince(b, k) = Escalation
    /\ IDLE(b)
    /\ FiredTimers(b) = {}

RoundTrip(b, k, j) ==
    /\ has_release_event(b)
    /\ calls[b][j].event = RELEASED
    /\ k \in Done(b, PRESSED)
    /\ calls[b][k].seen.slot = NoTimer
    /\ calls[b][k].seen.armed = {}
    /\ AcqPos(b, CallThread(j)) = AcqPos(b, CallThread(k)) + 1
    /\ AcqPos(b, CallThread(j)) = Len(acquired[b])

\* C7: on a release-capable button that is IDLE, PRESS then RELEASE with no
\* timer expiry in between emits exactly "pressed", "released", and the
\* button is IDLE when the RELEASE call returns.
C7_PressReleaseRoundtrip ==
    [][\A b \in Buttons : \A k, j \in Calls(b) :
          (/\ RoundTrip(b, k, j)
           /\ calls[b][j].pc = "locked"
           /\ calls'[b][j].pc = "done"
           /\ Cardinality(ExpiredTimers(b)) = calls[b][k].seen.nexp) =>
             /\ EventPos(b, k) = Len(Events(b))
             /\ Events(b)' = Append(Events(b),
                                    Emission(b, "released", CallThread(j)))
             /\ IDLE(b)']_vars

\* a PRESS on an IDLE button and the RELEASE after it have both returned
C7_Witness ==
    \E b \in Buttons : \E k, j \in Calls(b) :
       /\ RoundTrip(b, k, j)
       /\ calls[b][j].pc = "done"
       /\ calls[b][j].seen.nexp = calls[b][k].seen.nexp
       /\ k > 1
       /\ EventPos(b, j) = EventPos(b, k) + 1
       /\ IDLE(b)

\* ---------------------------------------------------------------- C9
\* the threads of b that are inside a `with self.lock` block
InBlock(b) ==
    {CallThread(k) : k \in {i \in Calls(b) : calls[b][i].pc = "locked"}}
    \cup {TimerThread(t) : t \in {i \in Timers(b) : timers[b][i].st = "locked"}}

\* the threads of b that wait for the lock
Waiting(b) ==
    {CallThread(k) : k \in {i \in Calls(b) : calls[b][i].pc = "start"}}
    \cup {TimerThread(t) : t \in {i \in Timers(b) : timers[b][i].st = "fired"}}

\* C9: at most one button_callback call or timer function of a button is
\* inside its block under the lock, and the button's events are emitted in
\* the order in which their threads took the lock.
C9_LockSerializes ==
    \A b \in Buttons :
       /\ Cardinality(InBlock(b)) <= 1
       /\ InBlock(b) = IF lock[b] = NoThread THEN {} ELSE {lock[b]}
       /\ \A i \in DOMAIN Events(b) :
             /\ AcqPos(b, Events(b)[i].by) # 0
             /\ i > 1 => AcqPos(b, Events(b)[i - 1].by) < AcqPos(b, Events(b)[i].by)

\* a call that arrived while another call was running holds the lock, and
\* an expired timer waits for it
C9_Witness ==
    \E b \in Buttons : \E k \in Calls(b) :
       /\ lock[b] = CallThread(k)
       /\ k > 1
       /\ \E t \in Timers(b) : TimerThread(t) \in Waiting(b)
       /\ Len(Events(b)) >= 1

\* --------------------------------------------------------------- C10
\* everything button b owns, and what it has emitted and logged
Local(b) ==
    <<lock[b], timer[b], timers[b], calls[b], acquired[b], Events(b),
      SelectEvents(logbook, b)>>

\* C10: a step taken for one button, a failure of the sink included, leaves
\* the lock, the slot, the timers, the calls and the emitted events of every
\* other button as they were.
C10_PerButtonIsolation ==
    [][\A b \in Buttons :
          Local(b)' # Local(b) =>
             \A c \in Buttons \ {b} : Local(c)' = Local(c)]_vars

\* both buttons have emitted, a timer of one button is armed and a call of
\* the other button has ended by an exception of the logbook
C10_Witness ==
    /\ \A b \in Buttons : Len(Events(b)) >= 1
    /\ \E b \in Buttons : \E c \in Buttons \ {b} :
          /\ ArmedTimers(b) # {}
          /\ \E k \in Calls(c) : calls[c][k].pc = "raised"

\* --------------------------------------------------------------- C11
\* the button_callback call of the press that the event at position i of
\* Events(b) belongs to: the call itself, or the call whose chain the
\* emitting timer is part of
PressOf(b, i) ==
    IF Events(b)[i].by[1] = "call" THEN Events(b)[i].by[2]
    ELSE timers[b][Events(b)[i].by[2]].press

\* the positions at which action a was emitted for the press of call k
EmittedFor(b, k, a) ==
    {i \in DOMAIN Events(b) : Events(b)[i].action = a /\ PressOf(b, i) = k}

\* no action has been emitted twice for the same press
NoDoubleEmission ==
    \A b \in Buttons : \A k \in Calls(b) : \A a \in Actions :
       Cardinality(EmittedFor(b, k, a)) <= 1

\* call k leaves its block, and the timer it found in the slot had expired
\* already or had been cancelled already
CancelOfStale(b, k) ==
    /\ calls[b][k].pc = "locked"
    /\ calls'[b][k].pc # "locked"
    /\ timer[b] # NoTimer
    /\ ~Armed(b, timer[b])

\* timer t of b is what it was, but for the mark of cancel()
Untouched(b, t) ==
    [timers'[b][t] EXCEPT !.cancelled = timers[b][t].cancelled] = timers[b][t]

\* C11: the cancel at the start of button_callback, made on a timer that has
\* already fired or was already cancelled, is a no-op: the call ends as it
\* would have (an error can only come from the sink), every timer stays in
\* the stage it was in, the slot no longer holds the old timer, and no
\* action is ever emitted twice for the same press.
C11_IdempotentCancel ==
    /\ []NoDoubleEmission
    /\ [][\A b \in Buttons : \A k \in Calls(b) :
             CancelOfStale(b, k) =>
                /\ calls'[b][k].pc = IF fails' = fails THEN "done" ELSE "raised"
                /\ \A t \in Timers(b) : Untouched(b, t)
                /\ FiredTimers(b)' = FiredTimers(b)
                /\ timer'[b] # timer[b]
                /\ lock'[b] = NoThread
                /\ Len(Events(b)') <= Len(Events(b)) + 1]_vars

\* a call has cancelled a timer that had expired and waited for the lock,
\* and the timer has run its function and emitted since
C11_Witness ==
    \E b \in Buttons : \E k \in Calls(b) :
       /\ calls[b][k].pc = "done"
       /\ calls[b][k].seen.slot \in calls[b][k].seen.fired
       /\ timers[b][calls[b][k].seen.slot].st = "done"
       /\ EventsBy(b, TimerThread(calls[b][k].seen.slot)) # {}

\* --------------------------------------------------------------- C12
\* the positions in the logbook entries of b of those written by thread th
LogEntriesBy(b, th) ==
    {i \in DOMAIN SelectEvents(logbook, b) : SelectEvents(logbook, b)[i].by = th}

\* a call that ended by an exception fired at most one event and wrote no
\* log entry
RaisedOnce ==
    \A b \in Buttons : \A k \in Calls(b) :
       calls[b][k].pc = "raised" =>
          /\ Cardinality(EventsBy(b, CallThread(k))) <= 1
          /\ LogEntriesBy(b, CallThread(k)) = {}

\* C12: when the bus or the logbook fails while button_callback emits for a
\* PRESS or a RELEASE, the call ends by that exception (it reaches the
\* caller), and the emission is not made again: nothing is fired or logged
\* for that call afterwards.
C12_SinkFailurePropagates ==
    /\ []RaisedOnce
    /\ [][\A b \in Buttons : \A k \in Calls(b) :
             /\ (/\ calls[b][k].pc = "locked"
                 /\ calls'[b][k].pc # "locked"
                 /\ fails' # fails) =>
                    /\ calls'[b][k].pc = "raised"
                    /\ Len(bus') <= Len(bus) + 1
                    /\ logbook' = logbook
             /\ calls[b][k].pc = "raised" =>
                    /\ calls'[b][k] = calls[b][k]
                    /\ EventsBy(b, CallThread(k))' = EventsBy(b, CallThread(k))
                    /\ LogEntriesBy(b, CallThread(k))' = LogEntriesBy(b, CallThread(k))]_vars

\* a call has ended by an exception of the logbook after its event was
\* fired, and a later call of the same button has returned
C12_Witness ==
    \E b \in Buttons : \E k, j \in Calls(b) :
       /\ calls[b][k].pc = "raised"
       /\ EventsBy(b, CallThread(k)) # {}
       /\ j > k
       /\ calls[b][j].pc = "done"

\* --------------------------------------------------------------- C13
\* whenever a thread of a button waits for the lock or holds it, some thread
\* can take a step
NoDeadlock ==
    (\E b \in Buttons : Waiting(b) # {} \/ InBlock(b) # {}) => ENABLED Run

\* a PRESS call returns while the timer it has armed is still waiting for
\* its interval to end
ReturnsBeforeExpiry ==
    \A b \in Buttons : \A k \in Calls(b) :
       (/\ calls[b][k].event = PRESSED
        /\ calls[b][k].pc = "locked"
        /\ calls'[b][k].pc # "locked") =>
           /\ calls'[b][k].pc = "done"
           /\ lock'[b] = NoThread
           /\ timer'[b] \in ArmedTimers(b)'
           /\ timers'[b][timer'[b]].by = CallThread(k)

\* C13: under fair scheduling every button_callback call that has started
\* takes the lock and returns; no state with a waiting thread is a deadlock;
\* a call that arms a timer returns while the timer is still armed.
C13_CallTerminates ==
    /\ []NoDeadlock
    /\ [][ReturnsBeforeExpiry]_vars
    /\ \A b \in Buttons : \A k \in 1..LiveEvents :
          (k \in Calls(b)) ~> (k \in Calls(b) /\ calls[b][k].pc = "done")

\* a PRESS call that took the lock after a timer function and after another
\* call has returned, and the timer it armed has not expired
C13_Witness ==
    \E b \in Buttons : \E k \in Calls(b) :
       /\ calls[b][k].event = PRESSED
       /\ calls[b][k].pc = "done"
       /\ timer[b] \in ArmedTimers(b)
       /\ timers[b][timer[b]].by = CallThread(k)
       /\ \E t \in Timers(b) :
             /\ AcqPos(b, TimerThread(t)) # 0
             /\ AcqPos(b, TimerThread(t)) < AcqPos(b, CallThread(k))
       /\ k > 1

\* --------------------------------------------------------------- C14
\* no call has emitted more than one event, and none before it ran its block
OneImmediateEvent ==
    \A b \in Buttons : \A k \in Calls(b) :
       /\ Cardinality(EventsBy(b, CallThread(k))) <= 1
       /\ calls[b][k].pc \in {"start", "locked"} => EventsBy(b, CallThread(k)) = {}

\* what the call k adds to the events of b when it runs its block
ImmediateEvents(b, k) ==
    /\ calls[b][k].event = PRESSED =>
          Events(b)' = Append(Events(b), Emission(b, "pressed", CallThread(k)))
    /\ calls[b][k].event = RELEASED =>
          \/ Events(b)' = Events(b)
          \/ Events(b)' = Append(Events(b), Emission(b, "released", CallThread(k)))
    /\ calls[b][k].event \notin {PRESSED, RELEASED} => Events(b)' = Events(b)

\* C14: a PRESS processed in any state (IDLE, AWAITING_LONG,
\* AWAITING_SUPER_LONG) emits exactly one event, "pressed", and no "released"
\* for the press it interrupts; a RELEASE emits at most one event; no call
\* emits more than one event.
C14_OneImmediateEvent ==
    /\ []OneImmediateEvent
    /\ [][\A b \in Buttons : \A k \in Calls(b) :
             (calls[b][k].pc = "locked" /\ calls'[b][k].pc # "locked") =>
                ImmediateEvents(b, k)]_vars

\* the kind of the armed timer that call k found in the slot
FoundArmed(b, k, kind) ==
    /\ calls[b][k].seen.slot \in calls[b][k].seen.armed
    /\ timers[b][calls[b][k].seen.slot].kind = kind

\* PRESS calls have returned that found the button waiting for the long
\* press and waiting for the super long press
C14_Witness ==
    \E b \in Buttons : \E k1, k2 \in Done(b, PRESSED) :
       /\ FoundArmed(b, k1, "long")
       /\ FoundArmed(b, k2, "super")
       /\ \A k \in {k1, k2} : Cardinality(EventsBy(b, CallThread(k))) = 1

\* --------------------------------------------------------------- C15
\* no RELEASE call has armed a timer
ReleaseArmsNothing ==
    \A b \in Buttons : \A k \in Calls(b) :
       calls[b][k].event = RELEASED => ArmedBy(b, CallThread(k)) = {}

\* C15: when a button_callback call for RELEASE completes, whatever it found
\* and whether or not the button's type has "RaiseLower", the timer slot is
\* empty, the timer that was in it has been cancelled, and the call has armed
\* no timer.
C15_ReleaseEndsIdle ==
    /\ []ReleaseArmsNothing
    /\ [][\A b \in Buttons : \A k \in Calls(b) :
             (/\ calls[b][k].event = RELEASED
              /\ calls[b][k].pc = "locked"
              /\ calls'[b][k].pc # "locked") =>
                 /\ timer'[b] = NoTimer
                 /\ timer[b] # NoTimer => timers'[b][timer[b]].cancelled
                 /\ Len(timers'[b]) = Len(timers[b])
                 /\ ArmedBy(b, CallThread(k))' = {}]_vars

\* on the button without "RaiseLower" a RELEASE has returned that found the
\* 1 s timer armed in the slot, and the slot is empty
C15_Witness ==
    \E b \in Buttons : \E k \in Done(b, RELEASED) :
       /\ ~has_release_event(b)
       /\ FoundArmed(b, k, "super")
       /\ timer[b] = NoTimer

\* --------------------------------------------------------------- C16
\* the logbook entries of button b, in order
LogEntries(b) == SelectEvents(logbook, b)

\* every event fired has the fixed name, one of the four actions and the
\* identity of its button; the log entries of a button are its events, in
\* order, but for the emissions in which the bus or the logbook raised
WellFormedEvents ==
    /\ \A i \in DOMAIN bus :
          /\ bus[i].event = event_name
          /\ bus[i].action \in Actions
          /\ bus[i].button \in Buttons
    /\ \A b \in Buttons :
          /\ Len(LogEntries(b)) <= Len(Events(b))
          /\ Len(Events(b)) <= Len(LogEntries(b)) + fails
          /\ fails = 0 => LogEntries(b) = Events(b)

\* the step fires exactly one event of b and writes the log entry of the
\* same action, by the same thread, unless the logbook raises
OneEventOneEntry(b) ==
    LET e == Events(b)'[Len(Events(b)')] IN
    /\ Events(b)' = Append(Events(b), e)
    /\ e.event = event_name
    /\ e.action \in Actions
    /\ e.button = b
    /\ LogEntries(b)' = IF fails' = fails THEN Append(LogEntries(b), e)
                        ELSE LogEntries(b)

\* C16: every emission, immediate or made by a timer, fires exactly one event
\* named event_name, with one of the four actions and the identity of its
\* button, and, the logbook working, writes exactly one log entry with the
\* same action before any other event of that button is fired.
C16_EventThenLogEntry ==
    /\ []WellFormedEvents
    /\ [][\A b \in Buttons :
             /\ Events(b)' # Events(b) => OneEventOneEntry(b)
             /\ LogEntries(b)' # LogEntries(b) => Events(b)' # Events(b)]_vars

\* a button has fired the event of a call and the event of a timer, and both
\* are in the logbook
C16_Witness ==
    \E b \in Buttons :
       /\ \E i, j \in DOMAIN Events(b) :
             Events(b)[i].by[1] = "call" /\ Events(b)[j].by[1] = "timer"
       /\ LogEntries(b) = Events(b)
       /\ LogActions(b) = EventActions(b)

\* --------------------------------------------------------------- C17
\* the action that must come just before action a in the events of a button
Before(a) == IF a = "super_long_pressed" THEN "long_pressed" ELSE "pressed"

\* C17: in the events of every button each "super_long_pressed" comes right
\* after a "long_pressed" and each "long_pressed" right after a "pressed";
\* neither ever comes right after a "released".
C17_EscalationOrder ==
    \A b \in Buttons : \A i \in DOMAIN Events(b) :
       EventActions(b)[i] \in {"long_pressed", "super_long_pressed"} =>
          /\ i > 1
          /\ EventActions(b)[i - 1] = Before(EventActions(b)[i])

\* --------------------------------------------------------------- C18
\* how often action a is among the first n elements of the sequence s
Count(s, a, n) == Cardinality({i \in 1..n : s[i] = a})

\* C18: in every prefix of the events of every button there are at most as
\* many "long_pressed" as "pressed" and at most as many "super_long_pressed"
\* as "long_pressed".
C18_EscalationCounts ==
    \A b \in Buttons :
       LET s == EventActions(b) IN
       \A n \in 0..Len(s) :
          /\ Count(s, "long_pressed", n) <= Count(s, "pressed", n)
          /\ Count(s, "super_long_pressed", n) <= Count(s, "long_pressed", n)

\* how often action a is among the events of button b
Emitted(b, a) == Count(EventActions(b), a, Len(Events(b)))

\* two presses have both escalated fully, the first through a timer that was
\* cancelled after it had expired
C18_Witness ==
    \E b \in Buttons :
       /\ Emitted(b, "pressed") = 2
       /\ Emitted(b, "super_long_pressed") = 2
       /\ \E t \in Timers(b) :
             timers[b][t].cancelled /\ EventsBy(b, TimerThread(t)) # {}

\* --------------------------------------------------------------- C19
\* the PRESS calls of b that ended by an exception of the sink
FailedPress(b) ==
    {k \in Calls(b) : calls[b][k].pc = "raised" /\ calls[b][k].event = PRESSED}

\* the failed PRESS call k has left the lock, has armed no timer, and the
\* timer it found in the slot has had cancel() called
FailedPressCleansUp(b, k) ==
    /\ lock[b] # CallThread(k)
    /\ ArmedBy(b, CallThread(k)) = {}
    /\ calls[b][k].seen.slot # NoTimer => timers[b][calls[b][k].seen.slot].cancelled
    /\ Len(acquired[b]) = AcqPos(b, CallThread(k)) => IDLE(b)

\* every timer event emitted after the failed PRESS call k comes after a
\* later raw event was processed
NothingFollowsFailedPress(b, k) ==
    \A i \in DOMAIN Events(b) :
       (/\ Events(b)[i].by[1] = "timer"
        /\ AcqPos(b, Events(b)[i].by) > AcqPos(b, CallThread(k))) =>
           \E j \in Calls(b) :
              /\ AcqPos(b, CallThread(j)) > AcqPos(b, CallThread(k))
              /\ AcqPos(b, CallThread(j)) < AcqPos(b, Events(b)[i].by)

\* C19: when the sink fails while button_callback emits "pressed", the lock
\* is released, the timer that was pending stays cancelled, no timer is armed
\* (the button is IDLE with an empty slot), and no "long_pressed" follows the
\* failed press.
C19_FailedPressLeavesIdle ==
    \A b \in Buttons : \A k \in FailedPress(b) :
       /\ FailedPressCleansUp(b, k)
       /\ NothingFollowsFailedPress(b, k)

\* --------------------------------------------------------------- C20
\* button b is at rest: the slot is empty, no timer is armed, no timer
\* function waits or runs, and no call is under way
Quiescent(b) ==
    /\ timer[b] = NoTimer
    /\ ArmedTimers(b) = {}
    /\ FiredTimers(b) = {}
    /\ InFlight(b) = {}
    /\ lock[b] = NoThread

\* a PRESS creates at most two timers: no chain arms itself again
BoundedChains ==
    \A b \in Buttons :
       Len(timers[b]) <= 2 * Cardinality({k \in Calls(b) : calls[b][k].event = PRESSED})

\* while the buttons are at rest and no raw event arrives, nothing is
\* emitted and nothing is armed
StaysQuiescent ==
    ((\A b \in Buttons : Quiescent(b)) /\ calls' = calls) =>
       UNCHANGED <<bus, logbook, timer, timers, lock>>

\* C20: the sink working and the threads and timers scheduled fairly, once
\* the raw events have stopped every button reaches the state IDLE with an
\* empty slot, no armed or running timer, and stays there without emitting;
\* no press starts a chain of timers that arms itself forever.
C20_EventuallyQuiescent ==
    /\ []BoundedChains
    /\ [][StaysQuiescent]_vars
    /\ <>[](\A b \in Buttons : Quiescent(b))

\* a button is at rest after all its raw events, two of its presses have
\* escalated, one of them through a timer that was cancelled after expiring
C20_Witness ==
    \E b \in Buttons :
       /\ Quiescent(b)
       /\ Len(calls[b]) = LiveEvents
       /\ Emitted(b, "super_long_pressed") = 2
       /\ \E t \in Timers(b) :
             timers[b][t].cancelled /\ EventsBy(b, TimerThread(t)) # {}

====
